---- MODULE Spec2Model ----
(***************************************************************************)
(* Model of the pull-request orchestration engine of genai_hackathon:      *)
(*   - GitHubService.verify_webhook_signature   (services/github_service)  *)
(*   - github_webhook, the webhook dispatcher   (routers/github_webhook)   *)
(*   - the two autofix workflows and their commit builders                 *)
(*       PatchworkGitHub.autofix_pr + GitHubService.create_commit          *)
(*       routers/github_simple.autofix_pr + GitHubSimple.create_commit_... *)
(*   - the two review workflows                                            *)
(*       PatchworkGitHub.review_pr, routers/github_simple.analyze_pr       *)
(*   - GitHubService.get_installation_client and the tasks calling it      *)
(*   - GroqService.review_code                  (services/groq_service)    *)
(* Seven specifications share the module: SpecVerify (the verifier as a    *)
(* pure function), Spec (the webhook handler and its background tasks),    *)
(* SpecAutofix (one autofix run against the hosting platform), SpecReview  *)
(* (one review run), SpecToken (the tasks' installation tokens), SpecGroq  *)
(* (review_code as a pure function) and SpecSync (the handler and the      *)
(* synchronize events that follow the engine's own commits).               *)
(***************************************************************************)
EXTENDS Integers, Sequences, FiniteSets, TLC

\* ------------------------------------------------------------- bounds
MaxHeaderLen == 3      \* longest signature header, in tokens (SpecVerify)
MaxDeliveries == 2     \* times the platform delivers one webhook delivery
MaxPushes == 1         \* pushes by other parties during one autofix run
MaxTasks == 2          \* background tasks running at the same time (SpecToken)
MaxCodeLen == 3        \* longest code text handed to review_code (SpecGroq)

VARIABLES
    \* GitHubService state
    webhook_secret,      \* self.webhook_secret ("" when GITHUB_WEBHOOK_SECRET is unset)
    \* SpecVerify: one call of verify_webhook_signature
    vpayload, vsignature, vresult,
    \* Spec: the webhook handler
    req,                 \* the request being handled
    hpc,                 \* position of github_webhook
    verified,            \* what verify_webhook_signature returned for req
    payloadRead,         \* request.json() has been evaluated for req
    response,            \* the HTTP response of the handler
    added,               \* tasks added to background_tasks by this handling
    background_tasks,    \* tasks waiting to run after the response
    dispatched,          \* every task ever added, with its delivery
    effects,             \* comments and commits made by the tasks that ran
    handled,             \* handler executions started so far
    \* SpecAutofix: the hosting platform
    prState,             \* state of the pull request: "open" or "closed"
    prFiles,             \* the PR's changed files: filename -> [status, content]
    branchExists,        \* the PR's head branch still exists
    commits,             \* the commit objects of the repository, by SHA (index)
    tip,                 \* the SHA the head branch ref points at
    pushes,              \* pushes made by other parties during the run
    \* SpecAutofix: one autofix run
    path,                \* "app": PatchworkGitHub.autofix_pr, "simple": the autofix-pr endpoint
    auto_commit,         \* request.auto_commit (the endpoint's option)
    apc,                 \* position of the run
    fetchOk,             \* the PR snapshot was fetched
    files,               \* pr_data["files"] / pr_data["files_changed"]
    idx,                 \* the file the loop is at
    fixed_files,         \* the FixSet: filename -> rewritten content
    steps,               \* the commit builder's platform calls, in order
    bi,                  \* the call the commit builder is at
    latest_commit_sha,   \* the tip read at the ref lookup (0: not read)
    tree_elements,       \* blobs created so far
    new_tree,            \* the tree object created
    new_commit,          \* SHA of the commit object created (0: none)
    calls,               \* platform calls issued by the run, in order
    result,              \* what the run returned
    unread,              \* files whose content the platform failed to serve to the fetch
    reviews,             \* the review collaborator's answers so far: filename -> outcome
    rewrites,            \* files the rewrite collaborator was called for
    summary,             \* the summary comment handed to post_pr_comment
    \* SpecReview: one review run
    post_comment,        \* request.post_comment (the endpoint's option)
    review_results,      \* files that produced a review result, in order
    \* SpecToken: GitHubService and the background tasks that use it
    integration,         \* self.integration is set (app id and private key configured)
    tinst,               \* task -> the installation id it works for
    tops,                \* task -> the GitHubService methods it calls, in order
    tpos,                \* task -> the call it is at
    tstatus,             \* task -> "running", "done" or the error that ended it
    tlog,                \* token exchanges and platform calls made, in order
    \* SpecGroq: one call of GroqService.review_code
    gcode,               \* the code argument
    glanguage,           \* the language argument
    gapi,                \* how the model API would answer
    gresult,             \* what the call returned or raised, and whether the API was called
    \* SpecSync: the pull request the webhooks are about
    prBody               \* the PR's body on the platform (None when it has none)

verifyVars == <<vpayload, vsignature, vresult>>
hookVars == <<req, hpc, verified, payloadRead, response, added,
              background_tasks, dispatched, effects, handled>>
platformVars == <<prState, prFiles, branchExists, commits, tip, pushes>>
runVars == <<path, auto_commit, apc, fetchOk, files, idx, fixed_files, steps, bi,
             latest_commit_sha, tree_elements, new_tree, new_commit, calls, result>>
auditVars == <<unread, reviews, rewrites, summary>>
reviewVars == <<post_comment, review_results>>
tokenVars == <<integration, tinst, tops, tpos, tstatus, tlog>>
groqVars == <<gcode, glanguage, gapi, gresult>>
syncVars == <<prBody>>
fixVars == <<platformVars, runVars, auditVars, reviewVars, tokenVars, groqVars, syncVars>>
vars == <<webhook_secret, verifyVars, hookVars, fixVars>>

\* ------------------------------------------------------------- strings
\* A string is a sequence of tokens; a token stands for a non-empty run of
\* characters.  EQ is the character '=', HexDigest(k, m) the 64 hex digits
\* hmac.new(k, m, sha256).hexdigest() (an ideal MAC: distinct key or message,
\* distinct digest), Lit(w) any other run of characters.
EQ == <<"=", "", "">>
Lit(w) == <<"lit", w, "">>
HexDigest(key, msg) == <<"hex", key, msg>>
NonAscii == Lit("non-ascii")

\* Python values that may be None
None == [none |-> TRUE, s |-> <<>>]
Str(s) == [none |-> FALSE, s |-> s]
Truthy(v) == ~v.none /\ v.s # <<>>

Secrets == {"", "s1", "s2"}
Bodies == {"", "b1"}

\* str.split('='): the pieces between the '=' characters
RECURSIVE SplitEq(_)
SplitEq(s) ==
    IF s = <<>> THEN << <<>> >>
    ELSE LET rest == SplitEq(Tail(s)) IN
         IF Head(s) = EQ THEN << <<>> >> \o rest
         ELSE << <<Head(s)>> \o Head(rest) >> \o Tail(rest)

\* hmac.compare_digest(a, b) on two str: TypeError unless both are ASCII
compare_digest(a, b) ==
    IF \E i \in DOMAIN b : b[i] = NonAscii THEN "TypeError"
    ELSE IF a = b THEN "True" ELSE "False"

\* faulty variant: the digest is not compared
verify_nocompare(secret, payload, signature) ==
    IF secret = "" THEN "False"
    ELSE IF ~Truthy(signature) THEN "False"
    ELSE LET parts == SplitEq(signature.s) IN
         IF Len(parts) # 2 THEN "ValueError"
         ELSE IF parts[1] # <<Lit("sha256")>> THEN "False"
         ELSE "True"

\* GitHubService.verify_webhook_signature: "True", "False", or the exception raised
verify_webhook_signature(secret, payload, signature) ==
    IF secret = "" THEN "False"
    ELSE IF ~Truthy(signature) THEN "False"
    ELSE LET parts == SplitEq(signature.s) IN
         IF Len(parts) # 2 THEN "ValueError"     \* sha_name, signature = ...
         ELSE IF parts[1] # <<Lit("sha256")>> THEN "False"
         ELSE compare_digest(<<HexDigest(secret, payload)>>, parts[2])


\* ------------------------------------------------------------- webhook requests
REVIEW_CMD == "/patchwork review"
AUTOFIX_CMD == "/patchwork autofix"

\* A PR or comment body: a sequence of words.  `tok in body` (substring)
Contains(text, tok) == \E i \in DOMAIN text : text[i] = tok

Texts == { <<>>, <<"hi">>, <<REVIEW_CMD>>, <<AUTOFIX_CMD>>,
           <<REVIEW_CMD, AUTOFIX_CMD>>, <<"/Patchwork Review">> }

\* The parsed JSON body.  pr, installation, repository, comment: the object is
\* present and non-empty; issue: "absent", "issue" (a plain issue) or "pr" (an
\* issue that carries the pull_request key).
Payload(json, action, pr, prbody, installation, repository, issue, comment, cbody) ==
    [json |-> json, action |-> action, pr |-> pr, prbody |-> prbody,
     installation |-> installation, repository |-> repository,
     issue |-> issue, comment |-> comment, cbody |-> cbody]

NotJson == Payload(FALSE, "", FALSE, None, FALSE, FALSE, "absent", FALSE, <<>>)

PullRequestPayloads ==
    { Payload(TRUE, a, TRUE, b, i, r, "absent", FALSE, <<>>) :
        a \in {"opened", "reopened", "synchronize", "closed"},
        b \in {None} \cup {Str(t) : t \in Texts},
        i \in BOOLEAN, r \in BOOLEAN }
    \cup
    { Payload(TRUE, a, FALSE, None, i, r, "absent", FALSE, <<>>) :
        a \in {"opened", "closed"}, i \in BOOLEAN, r \in BOOLEAN }

IssueCommentPayloads ==
    { Payload(TRUE, a, FALSE, None, i, r, iss, TRUE, t) :
        a \in {"created", "deleted"}, i \in BOOLEAN, r \in BOOLEAN,
        iss \in {"absent", "issue", "pr"}, t \in Texts }
    \cup
    { Payload(TRUE, "created", FALSE, None, i, r, "pr", FALSE, <<>>) :
        i \in BOOLEAN, r \in BOOLEAN }

\* signature headers a sender may attach to body b
HookHeaders(b) ==
    { None, Str(<<>>),
      Str(<<Lit("sha256"), EQ, HexDigest("s1", b)>>),
      Str(<<Lit("sha256"), EQ, HexDigest("s2", b)>>),
      Str(<<Lit("sha1"), EQ, HexDigest("s1", b)>>),
      Str(<<Lit("sha256"), HexDigest("s1", b)>>) }

Request(sig, body, event, payload) ==
    [sig |-> sig, body |-> body, event |-> event, payload |-> payload]

NoRequest == Request(None, "", "", NotJson)

Requests ==
    { Request(h, "b1", "pull_request", p) :
        h \in HookHeaders("b1"), p \in PullRequestPayloads }
    \cup { Request(h, "b1", "issue_comment", p) :
        h \in HookHeaders("b1"), p \in IssueCommentPayloads }
    \cup { Request(h, "b1", "push", Payload(TRUE, "", FALSE, None, i, TRUE, "absent", FALSE, <<>>)) :
        h \in HookHeaders("b1"), i \in BOOLEAN }
    \cup { Request(h, "", e, NotJson) :
        h \in HookHeaders(""), e \in {"pull_request", "issue_comment"} }

\* ------------------------------------------------------------- github_webhook
Task(kind, n) == [kind |-> kind, n |-> n]
Kinds(tasks) == { tasks[i].kind : i \in DOMAIN tasks }

Response(code, status) == [code |-> code, status |-> status]
NoResponse == Response(0, "")

\* faulty variant: autofix also runs on every opened PR
should_autofix_on_open(action, prbody) ==
    action = "opened" \/ Contains(IF prbody.none THEN <<>> ELSE prbody.s, AUTOFIX_CMD)

\* should_review / should_autofix of the pull_request branch
should_review(action, prbody) ==
    action = "opened" \/ Contains(IF prbody.none THEN <<>> ELSE prbody.s, REVIEW_CMD)

should_autofix(action, prbody) ==
    Contains(IF prbody.none THEN <<>> ELSE prbody.s, AUTOFIX_CMD)

\* the arguments of add_task can be evaluated: payload["repository"]["full_name"],
\* installation["id"]
TaskArgsOk(p) == p.repository /\ p.installation

\* faulty variant: a comment on any issue is taken for a comment on a PR thread
on_any_issue(p) == p.issue # "absent"

\* `issue and "pull_request" in issue`: the comment is on a pull request's thread
on_pr_thread(p) == p.issue = "pr"

\* The routing part of github_webhook (after the JSON body was parsed):
\* the tasks added, in order, and the response; code 500 is an exception
\* that escaped the handler.
Routing(event, p, n) ==
    IF event = "pull_request"
          /\ p.action \in {"opened", "reopened", "synchronize"}
          /\ p.pr /\ p.installation
    THEN LET rv == should_review(p.action, p.prbody)
             af == should_autofix(p.action, p.prbody)
         IN IF (rv \/ af) /\ ~TaskArgsOk(p)
            THEN [tasks |-> <<>>, response |-> Response(500, "")]
            ELSE [tasks |-> (IF rv THEN <<Task("review", n)>> ELSE <<>>)
                            \o (IF af THEN <<Task("autofix", n)>> ELSE <<>>),
                  response |-> Response(200, "processing")]
    ELSE IF event = "issue_comment"
          /\ p.action = "created" /\ on_pr_thread(p) /\ p.comment
    THEN IF Contains(p.cbody, REVIEW_CMD)
         THEN IF ~TaskArgsOk(p)
              THEN [tasks |-> <<>>, response |-> Response(500, "")]
              ELSE [tasks |-> <<Task("review", n)>>,
                    response |-> Response(200, "reviewing")]
         ELSE IF Contains(p.cbody, AUTOFIX_CMD)
         THEN IF ~TaskArgsOk(p)
              THEN [tasks |-> <<>>, response |-> Response(500, "")]
              ELSE [tasks |-> <<Task("autofix", n)>>,
                    response |-> Response(200, "autofixing")]
         ELSE [tasks |-> <<>>, response |-> Response(200, "ignored")]
    ELSE [tasks |-> <<>>, response |-> Response(200, "ignored")]

\* ------------------------------------------------------------- autofix: data
\* File contents and model outputs are strings of characters.
IsSpace(c) == c \in {" ", "\n"}

RECURSIVE LStrip(_)
LStrip(s) == IF s # <<>> /\ IsSpace(Head(s)) THEN LStrip(Tail(s)) ELSE s

RECURSIVE RStrip(_)
RStrip(s) ==
    IF s # <<>> /\ IsSpace(s[Len(s)]) THEN RStrip(SubSeq(s, 1, Len(s) - 1)) ELSE s

\* str.strip()
Strip(s) == RStrip(LStrip(s))

Filenames == <<"a.py", "b.md">>
FilenameSet == { Filenames[i] : i \in DOMAIN Filenames }
Ext(filename) == IF filename = "a.py" THEN "py" ELSE "md"

OrigContents == { <<"x">>, <<"x", "\n">>, <<" ">>, <<>> }
LLMOutputs == { <<"x">>, <<"x", "\n">>, <<"y">>, <<" ">> }

FileChange(status, content) == [status |-> status, content |-> content]
FileChanges ==
    { FileChange("modified", c) : c \in OrigContents } \cup { FileChange("removed", <<>>) }

\* GitHubSimple.detect_language: total, unknown extensions fall back to python
detect_language(filename) ==
    IF Ext(filename) \in {"py", "js", "ts", "java", "cpp", "c", "go", "rs"}
    THEN Ext(filename) ELSE "python"

\* PatchworkGitHub._detect_language: mapping.get(ext), None for an unknown extension
detect_language_app(filename) ==
    IF Ext(filename) \in {"py", "js", "ts", "java", "cpp", "c", "go", "rs",
                          "php", "rb", "html", "css", "jsx", "tsx"}
    THEN Ext(filename) ELSE "None"

\* an entry of the PR snapshot's file list
FileData(filename, status, content) ==
    [filename |-> filename, status |-> status, content |-> content]

\* pr.get_files() with what repo.get_contents(...) yields for each file;
\* `unreadable` are the files whose content fetch raises (content "")
ChangedFiles(unreadable) ==
    [i \in DOMAIN Filenames |->
        LET f == Filenames[i] IN
        FileData(f, prFiles[f].status,
                 IF f \in unreadable THEN <<>> ELSE prFiles[f].content)]

\* pr_data["files"] of GitHubService.get_pr_diff: removed files are skipped and
\* a file is appended only `if content:`
get_pr_diff_files(unreadable) ==
    SelectSeq(ChangedFiles(unreadable),
              LAMBDA d : d.status # "removed" /\ d.content # <<>>)

\* pr_data["files_changed"] of GitHubSimple.fetch_pr_data: every changed file,
\* content "" for a removed file and for a file whose content fetch failed
fetch_pr_data_files(unreadable) ==
    [i \in DOMAIN Filenames |->
        LET d == ChangedFiles(unreadable)[i] IN
        FileData(d.filename, d.status,
                 IF d.status # "removed" THEN d.content ELSE <<>>)]

\* GroqService.rewrite_code on the model's reply `raw`: the code fences are
\* removed and the text stripped; an empty text is a failure
groq_rewrite(raw) ==
    IF Strip(raw) = <<>>
    THEN [success |-> FALSE, rewritten_code |-> <<>>]
    ELSE [success |-> TRUE, rewritten_code |-> Strip(raw)]

\* PatchworkService.rewrite_code on the model's reply `raw`: the content of the
\* code block, as it is
patchwork_rewrite(raw) == [success |-> TRUE, rewritten_code |-> raw]

\* routers/github_simple.autofix_pr: a rewrite enters the FixSet
AcceptSimple(fixed_code, content) == fixed_code # content

\* PatchworkGitHub.autofix_pr: a rewrite enters the FixSet
AcceptApp(rewritten_code, content) ==
    rewritten_code # <<>> /\ Strip(rewritten_code) # Strip(content)

\* the FixSet's filenames in insertion order
FixSeq(fixed) == SelectSeq(Filenames, LAMBDA f : f \in DOMAIN fixed)

NoFixes == [f \in {} |-> <<>>]
NoReviews == [f \in {} |-> ""]

\* new_commit.sha as text: 40 hex digits
ShaText(n) == [i \in 1..40 |-> (n * i) % 16]

\* the summary comment: the files listed and the commit identifier shown
Summary(fs, shown) == [files |-> fs, commit |-> shown]
NoSummary == Summary(<<>>, <<>>)

\* the commit identifier in the summary: `{commit_sha[:7]}` in the endpoint,
\* `{commit_sha}` in PatchworkGitHub.autofix_pr
summary_commit(p, sha) == IF p = "simple" THEN SubSeq(sha, 1, 7) ELSE sha
Put(fixed, f, content) ==
    [g \in DOMAIN fixed \cup {f} |-> IF g = f THEN content ELSE fixed[g]]

\* ------------------------------------------------------------- autofix: commit builder
Step(op, file) == [op |-> op, file |-> file]
BlobSteps(fs) == [i \in DOMAIN fs |-> Step("blob", fs[i])]

\* faulty variant: the branch ref is edited before the commit object exists
PlanEditFirst(p, fs) ==
    IF p = "simple"
    THEN <<Step("get_repo", ""), Step("get_ref", ""), Step("get_commit", "")>>
         \o BlobSteps(fs)
         \o <<Step("tree", ""), Step("ref_edit", ""), Step("commit", "")>>
    ELSE <<Step("token", ""), Step("get_repo", ""), Step("get_ref", ""),
           Step("get_tree", "")>>
         \o BlobSteps(fs)
         \o <<Step("tree", ""), Step("get_commit", ""), Step("ref_edit", ""),
              Step("commit", "")>>

\* The platform calls of the commit builder for FixSet files fs, in order:
\* GitHubSimple.create_commit_with_fixes ("simple"), GitHubService.create_commit ("app")
Plan(p, fs) ==
    IF p = "simple"
    THEN <<Step("get_repo", ""), Step("get_ref", ""), Step("get_commit", "")>>
         \o BlobSteps(fs)
         \o <<Step("tree", ""), Step("commit", ""), Step("ref_edit", "")>>
    ELSE <<Step("token", ""), Step("get_repo", ""), Step("get_ref", ""),
           Step("get_tree", "")>>
         \o BlobSteps(fs)
         \o <<Step("tree", ""), Step("get_commit", ""), Step("commit", ""),
              Step("ref_edit", "")>>

\* How a platform call can fail: a GithubException with an HTTP status, or
\* another exception ("conn": the connection failed)
FailStatuses == {"403", "404", "422", "500", "conn"}

Result(kind, error, sha) == [kind |-> kind, error |-> error, sha |-> sha]
NoResult == Result("pending", "", 0)

\* faulty variant: a failed ref update is swallowed and the builder reports success
FailResultSwallowEdit(p, op, st) ==
    IF op = "ref_edit" THEN Result("ok", "", 0)
    ELSE IF p = "app" THEN Result("failed", "exception", 0)
    ELSE IF st = "conn" THEN Result("raised", "500", 0)
    ELSE IF op = "get_ref" THEN Result("failed", "branch_not_found", 0)
    ELSE IF st = "404" THEN Result("failed", "not_found", 0)
    ELSE IF st = "403" THEN Result("failed", "forbidden", 0)
    ELSE Result("failed", IF st = "422" THEN "github_422" ELSE "github_500", 0)

\* faulty variant: autofix_pr catches GithubException only, another exception
\* leaves the task
FailResultEscapes(p, op, st) ==
    IF st = "conn" THEN Result("raised", "500", 0)
    ELSE IF p = "app" THEN Result("failed", "exception", 0)
    ELSE IF op = "get_ref" THEN Result("failed", "branch_not_found", 0)
    ELSE IF st = "404" THEN Result("failed", "not_found", 0)
    ELSE IF st = "403" THEN Result("failed", "forbidden", 0)
    ELSE Result("failed", IF st = "422" THEN "github_422" ELSE "github_500", 0)

\* What the run returns when the builder's call `op` fails with `st`.
\* "simple": create_commit_with_fixes turns a GithubException into a failure
\* value (github_<status> for a status without a case of its own), which the
\* endpoint returns; another exception leaves the endpoint as
\* HTTP 500.  "app": create_commit raises, autofix_pr returns {"error": str(e)}.
FailResult(p, op, st) ==
    IF p = "app" THEN Result("failed", "exception", 0)
    ELSE IF st = "conn" THEN Result("raised", "500", 0)
    ELSE IF op = "get_ref" THEN Result("failed", "branch_not_found", 0)
    ELSE IF st = "404" THEN Result("failed", "not_found", 0)
    ELSE IF st = "403" THEN Result("failed", "forbidden", 0)
    ELSE Result("failed", IF st = "422" THEN "github_422" ELSE "github_500", 0)

Commit(parent, tree, author) == [parent |-> parent, tree |-> tree, author |-> author]
\* a platform call of the run and how it ended: "ok" or the failure status
Call(op, file, st) == [op |-> op, file |-> file, st |-> st]

ReviewIdle ==
    /\ post_comment = FALSE
    /\ review_results = <<>>

Tasks == 1..MaxTasks
Installations == {"i1", "i2"}

TokenIdle ==
    /\ integration = TRUE
    /\ tinst = [t \in Tasks |-> "i1"]
    /\ tops = [t \in Tasks |-> <<>>]
    /\ tpos = [t \in Tasks |-> 1]
    /\ tstatus = [t \in Tasks |-> "done"]
    /\ tlog = <<>>

\* what a call of review_code ended in: raised = "" when it returned
GroqResult(raised, success, api_called) ==
    [raised |-> raised, success |-> success, api_called |-> api_called]
GroqPending == GroqResult("pending", FALSE, FALSE)

\* a Python value handed in as language: its type and, for a str, its text
PyValue(type, truthy, text) == [type |-> type, truthy |-> truthy, text |-> text]

GroqIdle ==
    /\ gcode = None
    /\ glanguage = PyValue("NoneType", FALSE, "")
    /\ gapi = "text"
    /\ gresult = GroqPending

FixIdle ==
    /\ ReviewIdle
    /\ TokenIdle
    /\ GroqIdle
    /\ prBody = None
    /\ prState = "open"
    /\ prFiles = [f \in FilenameSet |-> FileChange("removed", <<>>)]
    /\ branchExists = TRUE
    /\ commits = <<>>
    /\ tip = 0
    /\ pushes = 0
    /\ path = "simple"
    /\ auto_commit = FALSE
    /\ apc = "idle"
    /\ fetchOk = FALSE
    /\ files = <<>>
    /\ idx = 0
    /\ fixed_files = NoFixes
    /\ steps = <<>>
    /\ bi = 0
    /\ latest_commit_sha = 0
    /\ tree_elements = <<>>
    /\ new_tree = [f \in FilenameSet |-> <<>>]
    /\ new_commit = 0
    /\ calls = <<>>
    /\ result = NoResult
    /\ unread = {}
    /\ reviews = NoReviews
    /\ rewrites = {}
    /\ summary = NoSummary

\* ------------------------------------------------------------- SpecVerify
HeaderTokens ==
    {EQ, Lit("sha256"), Lit("sha1"), NonAscii}
    \cup {HexDigest(k, m) : k \in {"s1", "s2"}, m \in Bodies}

RECURSIVE SeqsUpTo(_, _)
SeqsUpTo(S, n) ==
    IF n = 0 THEN {<<>>}
    ELSE LET shorter == SeqsUpTo(S, n - 1) IN
         shorter \cup {Append(s, t) : s \in shorter, t \in S}

Headers == {None} \cup {Str(s) : s \in SeqsUpTo(HeaderTokens, MaxHeaderLen)}

HookIdle ==
    /\ req = NoRequest
    /\ hpc = "idle"
    /\ verified = "none"
    /\ payloadRead = FALSE
    /\ response = [code |-> 0, status |-> ""]
    /\ added = <<>>
    /\ background_tasks = <<>>
    /\ dispatched = <<>>
    /\ effects = <<>>
    /\ handled = 0

InitVerify ==
    /\ webhook_secret \in Secrets
    /\ vpayload \in Bodies
    /\ vsignature \in Headers
    /\ vresult = "pending"
    /\ HookIdle
    /\ FixIdle

VerifyCall ==
    /\ vresult = "pending"
    /\ vresult' = verify_webhook_signature(webhook_secret, vpayload, vsignature)
    /\ UNCHANGED <<webhook_secret, vpayload, vsignature, hookVars, fixVars>>

NextVerify == VerifyCall

SpecVerify == InitVerify /\ [][NextVerify]_vars

\* header starts with the scheme prefix 'sha256='
HasSha256Prefix(h) ==
    /\ ~h.none
    /\ Len(h.s) >= 2
    /\ h.s[1] = Lit("sha256")
    /\ h.s[2] = EQ

\* C2: verify_webhook_signature returns a boolean for every input (it never
\* raises), and returns false when no secret is configured, the header is
\* absent, or the header does not start with 'sha256='.
C2_FailsClosed ==
    vresult # "pending" =>
        /\ vresult \in {"True", "False"}
        /\ (webhook_secret = "" \/ vsignature.none \/ ~HasSha256Prefix(vsignature))
              => vresult = "False"

\* C3: with configured secret S, the header 'sha256=' + HMAC(S', body) is
\* accepted exactly when S' = S, for every body including the empty one.
C3_SecretDecides ==
    \A k \in {"s1", "s2"} :
        ( /\ vresult # "pending"
          /\ webhook_secret # ""
          /\ vsignature = Str(<<Lit("sha256"), EQ, HexDigest(k, vpayload)>>) )
        => vresult = (IF k = webhook_secret THEN "True" ELSE "False")

C3_Witness ==
    /\ vresult = "True"
    /\ vpayload = ""
    /\ vsignature = Str(<<Lit("sha256"), EQ, HexDigest(webhook_secret, "")>>)

\* ------------------------------------------------------------- Spec
Init ==
    /\ webhook_secret \in {"", "s1"}
    /\ vpayload = ""
    /\ vsignature = None
    /\ vresult = "pending"
    /\ HookIdle
    /\ FixIdle

\* The platform delivers a webhook: the first delivery carries any request, a
\* later one repeats it (at-least-once delivery of the same delivery).
Receive ==
    /\ hpc \in {"idle", "done"}
    /\ handled < MaxDeliveries
    /\ IF handled = 0 THEN req' \in Requests ELSE req' = req
    /\ handled' = handled + 1
    /\ hpc' = "check_header"
    /\ verified' = "none"
    /\ payloadRead' = FALSE
    /\ response' = NoResponse
    /\ added' = <<>>
    /\ UNCHANGED <<webhook_secret, verifyVars, background_tasks, dispatched, effects, fixVars>>

\* if not x_hub_signature_256: raise HTTPException(401)
CheckHeader ==
    /\ hpc = "check_header"
    /\ IF Truthy(req.sig)
       THEN hpc' = "verify" /\ UNCHANGED response
       ELSE hpc' = "done" /\ response' = Response(401, "")
    /\ UNCHANGED <<webhook_secret, verifyVars, req, verified, payloadRead, added,
                   background_tasks, dispatched, effects, handled, fixVars>>

\* payload_body = await request.body(); verify_webhook_signature(...)
Verify ==
    /\ hpc = "verify"
    /\ verified' = verify_webhook_signature(webhook_secret, req.body, req.sig)
    /\ IF verified' = "True" THEN hpc' = "parse" /\ UNCHANGED response
       ELSE IF verified' = "False" THEN hpc' = "done" /\ response' = Response(401, "")
       ELSE hpc' = "done" /\ response' = Response(500, "")
    /\ UNCHANGED <<webhook_secret, verifyVars, req, payloadRead, added,
                   background_tasks, dispatched, effects, handled, fixVars>>

\* payload = await request.json()
Parse ==
    /\ hpc = "parse"
    /\ payloadRead' = TRUE
    /\ IF req.payload.json THEN hpc' = "route" /\ UNCHANGED response
       ELSE hpc' = "done" /\ response' = Response(400, "")
    /\ UNCHANGED <<webhook_secret, verifyVars, req, verified, added,
                   background_tasks, dispatched, effects, handled, fixVars>>

\* the event routing; the tasks added run after the response is sent
Route ==
    /\ hpc = "route"
    /\ LET r == Routing(req.event, req.payload, handled) IN
         /\ added' = r.tasks
         /\ response' = r.response
         /\ background_tasks' = background_tasks \o r.tasks
         /\ dispatched' = dispatched \o r.tasks
    /\ hpc' = "done"
    /\ UNCHANGED <<webhook_secret, verifyVars, req, verified, payloadRead,
                   effects, handled, fixVars>>

Effect(kind, what, n) == [kind |-> kind, what |-> what, n |-> n]

\* faulty variant: the handler waits for its task and answers 500 when the
\* task ended without effect
RunTaskReports ==
    /\ background_tasks # <<>>
    /\ LET t == Head(background_tasks) IN
         \/ effects' = effects /\ response' = Response(500, "")
         \/ /\ t.kind = "review"
            /\ effects' = Append(effects, Effect("review", "comment", t.n))
            /\ UNCHANGED response
         \/ /\ t.kind = "autofix"
            /\ effects' = effects \o <<Effect("autofix", "commit", t.n),
                                       Effect("autofix", "comment", t.n)>>
            /\ UNCHANGED response
    /\ background_tasks' = Tail(background_tasks)
    /\ UNCHANGED <<webhook_secret, verifyVars, req, hpc, verified, payloadRead,
                   added, dispatched, handled, fixVars>>

\* A background task runs: review_pr posts one comment when a file produced a
\* result; autofix_pr pushes one commit and posts its summary when a file was
\* rewritten.  Either may end without any effect.
RunTask ==
    /\ background_tasks # <<>>
    /\ LET t == Head(background_tasks) IN
         \/ effects' = effects
         \/ /\ t.kind = "review"
            /\ effects' = Append(effects, Effect("review", "comment", t.n))
         \/ /\ t.kind = "autofix"
            /\ effects' = effects \o <<Effect("autofix", "commit", t.n),
                                       Effect("autofix", "comment", t.n)>>
    /\ background_tasks' = Tail(background_tasks)
    /\ UNCHANGED <<webhook_secret, verifyVars, req, hpc, verified, payloadRead,
                   response, added, dispatched, handled, fixVars>>

Next == Receive \/ CheckHeader \/ Verify \/ Parse \/ Route \/ RunTask

Spec == Init /\ [][Next]_vars

\* ------------------------------------------------------------- claims on Spec
HasKind(tasks, kind) == \E i \in DOMAIN tasks : tasks[i].kind = kind

\* C1: no task is dispatched and the payload is not read unless
\* verify_webhook_signature returned true for this request, and a request
\* whose signature is missing or invalid ends with a 401 and no task.
C1_VerifiedBeforeDispatch ==
    /\ (added # <<>> \/ payloadRead) => verified = "True"
    /\ (hpc = "done" /\ verified # "True")
          => (response.code = 401 /\ added = <<>>)

\* C9: a delivery handled twice dispatches, and so comments and commits, no
\* more than the same delivery handled once: no task is dispatched and no
\* comment or commit is made on behalf of a repeated handling.
C9_RedeliveryDeduplicated ==
    /\ \A i \in DOMAIN dispatched : dispatched[i].n = 1
    /\ \A i \in DOMAIN effects : effects[i].n = 1

IsLifecycleEvent ==
    /\ hpc = "done"
    /\ verified = "True"
    /\ req.payload.json
    /\ req.event = "pull_request"
    /\ req.payload.action \in {"opened", "reopened", "synchronize"}

PrBodyHas(tok) ==
    Contains(IF req.payload.prbody.none THEN <<>> ELSE req.payload.prbody.s, tok)

\* C10 as stated: for every verified pull_request event with action opened,
\* reopened or synchronize, review is dispatched iff the action is opened or
\* the PR body holds the review token, and autofix iff it holds the autofix token.
C10_RoutingAsStated ==
    IsLifecycleEvent =>
        /\ HasKind(added, "review")
              <=> (req.payload.action = "opened" \/ PrBodyHas(REVIEW_CMD))
        /\ HasKind(added, "autofix") <=> PrBodyHas(AUTOFIX_CMD)

CarriesObjects ==
    req.payload.pr /\ req.payload.installation /\ req.payload.repository

\* C10 amended: the same routing rule for the events whose payload carries the
\* pull_request, installation and repository objects; an event that lacks one
\* of them dispatches nothing.  An opened event without the autofix token
\* never dispatches autofix.
C10_RoutingRule ==
    IsLifecycleEvent =>
        /\ HasKind(added, "review")
              <=> ( CarriesObjects
                    /\ (req.payload.action = "opened" \/ PrBodyHas(REVIEW_CMD)) )
        /\ HasKind(added, "autofix")
              <=> (CarriesObjects /\ PrBodyHas(AUTOFIX_CMD))
        /\ Len(added) <= 2

C10_Witness ==
    /\ IsLifecycleEvent
    /\ req.payload.action = "opened"
    /\ ~PrBodyHas(AUTOFIX_CMD)
    /\ HasKind(added, "review")
    /\ ~HasKind(added, "autofix")

IsVerifiedEvent == hpc = "done" /\ verified = "True" /\ req.payload.json

IsPrComment ==
    /\ IsVerifiedEvent
    /\ req.event = "issue_comment"
    /\ req.payload.action = "created"
    /\ req.payload.issue = "pr"

\* C11: for every verified comment-created event on a PR thread (carrying the
\* comment, installation and repository objects), review is dispatched iff the
\* comment body holds '/patchwork review' and autofix iff it holds
\* '/patchwork autofix', also when the body holds both tokens.
C11_CommentCommands ==
    ( /\ IsPrComment
      /\ req.payload.comment /\ req.payload.installation /\ req.payload.repository )
    => /\ HasKind(added, "review") <=> Contains(req.payload.cbody, REVIEW_CMD)
       /\ HasKind(added, "autofix") <=> Contains(req.payload.cbody, AUTOFIX_CMD)

\* C12: every verified event that is neither a pull_request event with action
\* opened, reopened or synchronize nor a comment-created event on a PR thread
\* is answered with status 'ignored' and dispatches no task.
C12_OthersIgnored ==
    (IsVerifiedEvent /\ ~IsLifecycleEvent /\ ~IsPrComment)
    => (response = Response(200, "ignored") /\ added = <<>>)

C12_Witness ==
    /\ IsVerifiedEvent
    /\ req.event = "issue_comment"
    /\ req.payload.action = "created"
    /\ req.payload.issue = "issue"
    /\ Contains(req.payload.cbody, REVIEW_CMD)
    /\ response = Response(200, "ignored")
    /\ added = <<>>

\* C21: the handler's response is decided by verification and routing alone:
\* once the request is handled the response is the one the routing gave,
\* whether the tasks it dispatched are still waiting, ended without effect or
\* ran to their end.
C21_ResponseIndependentOfTasks ==
    IsVerifiedEvent =>
        response = Routing(req.event, req.payload, handled).response

C21_Witness ==
    /\ IsVerifiedEvent
    /\ handled = 1
    /\ response = Response(200, "processing")
    /\ Len(added) = 2
    /\ Len(background_tasks) = 1
    /\ effects = <<>>

\* C29: the handler's status tells what was dispatched: for a verified event
\* that was answered, the status is 'processing', 'reviewing' or
\* 'autofixing' iff a task was added during the request, 'ignored' iff none was.
C29_StatusReflectsDispatch ==
    (IsVerifiedEvent /\ response.code = 200) =>
        /\ response.status \in {"processing", "reviewing", "autofixing"}
              <=> added # <<>>
        /\ response.status = "ignored" <=> added = <<>>

\* C30: for every verified, well-formed JSON payload the handler returns a
\* status and never raises; an event without the installation or repository
\* object is ignored and dispatches no task, for issue_comment events as for
\* pull_request events.
C30_NeverRaises ==
    IsVerifiedEvent =>
        /\ response.code = 200
        /\ (~req.payload.installation \/ ~req.payload.repository)
              => (response.status = "ignored" /\ added = <<>>)

\* ------------------------------------------------------------- SpecAutofix
InitAutofix ==
    /\ webhook_secret = ""
    /\ prBody = None
    /\ vpayload = ""
    /\ vsignature = None
    /\ vresult = "pending"
    /\ HookIdle
    /\ ReviewIdle
    /\ TokenIdle
    /\ GroqIdle
    /\ path \in {"app", "simple"}
    /\ auto_commit \in (IF path = "app" THEN {TRUE} ELSE BOOLEAN)
    /\ prState \in {"open", "closed"}
    /\ branchExists \in (IF prState = "open" THEN {TRUE} ELSE BOOLEAN)
    /\ prFiles \in [FilenameSet -> FileChanges]
    /\ commits = << Commit(0, [f \in FilenameSet |-> prFiles[f].content], "author") >>
    /\ tip = 1
    /\ pushes = 0
    /\ apc = "fetch"
    /\ fetchOk = FALSE
    /\ files = <<>>
    /\ idx = 0
    /\ fixed_files = NoFixes
    /\ steps = <<>>
    /\ bi = 0
    /\ latest_commit_sha = 0
    /\ tree_elements = <<>>
    /\ new_tree = [f \in FilenameSet |-> <<>>]
    /\ new_commit = 0
    /\ calls = <<>>
    /\ result = NoResult
    /\ unread = {}
    /\ reviews = NoReviews
    /\ rewrites = {}
    /\ summary = NoSummary

others == <<webhook_secret, verifyVars, hookVars, reviewVars, tokenVars, groqVars, syncVars>>

\* What the run returns when fetching the PR fails.  "app": get_pr_diff raises
\* and autofix_pr returns {"error": ...}.  "simple": fetch_pr_data turns a
\* GithubException into ValueError (HTTP 400); another exception is HTTP 500.
FetchFailResult(p, st) ==
    IF p = "app" THEN Result("failed", "exception", 0)
    ELSE IF st = "conn" THEN Result("raised", "500", 0)
    ELSE Result("raised", "400", 0)

\* pr_data = get_pr_diff(...) / fetch_pr_data(...), and the endpoint's check of
\* pr_data["state"]; get_pr_diff returns no state and autofix_pr checks none
Fetch ==
    /\ apc = "fetch"
    /\ \/ \E u \in SUBSET {f \in FilenameSet : prFiles[f].status # "removed"} :
          /\ unread' = u
          /\ fetchOk' = TRUE
          /\ files' = (IF path = "app" THEN get_pr_diff_files(u)
                                       ELSE fetch_pr_data_files(u))
          /\ idx' = 1
          /\ IF path = "simple" /\ prState # "open"
             THEN apc' = "done" /\ result' = Result("failed", "pr_closed", 0)
             ELSE apc' = "loop" /\ UNCHANGED result
       \/ \E st \in {"403", "404", "conn"} :
          /\ apc' = "done"
          /\ result' = FetchFailResult(path, st)
          /\ UNCHANGED <<fetchOk, files, idx, unread>>
    /\ UNCHANGED <<others, platformVars, path, auto_commit, fixed_files, steps, bi,
                   latest_commit_sha, tree_elements, new_tree, new_commit, calls,
                   reviews, rewrites, summary>>

\* One iteration of the loop over the files.  The collaborators answer as they
\* like: the review fails, finds nothing or flags the file (critical + high
\* > 0); the rewrite fails or replies with some text.
ProcessFile ==
    /\ apc = "loop"
    /\ idx <= Len(files)
    /\ LET f == files[idx].filename
           content == files[idx].content
           skip == /\ fixed_files' = fixed_files
                   /\ idx' = idx + 1
                   /\ UNCHANGED <<apc, result>>
           take(code) == /\ fixed_files' = Put(fixed_files, f, code)
                         /\ idx' = idx + 1
                         /\ UNCHANGED <<apc, result>>
       IN IF path = "simple"
          THEN IF files[idx].status = "removed" \/ content = <<>>
               THEN skip /\ UNCHANGED <<reviews, rewrites>>
               ELSE IF Strip(content) = <<>>
               THEN \* groq.review_code raises ValueError: HTTP 400
                    /\ apc' = "done"
                    /\ result' = Result("raised", "400", 0)
                    /\ reviews' = Put(reviews, f, "raised")
                    /\ UNCHANGED <<fixed_files, idx, rewrites>>
               ELSE \E verdict \in {"failed", "clean", "flagged"} :
                    /\ reviews' = Put(reviews, f, verdict)
                    /\ IF verdict = "flagged"
                       THEN /\ rewrites' = rewrites \cup {f}
                            /\ \E raw \in LLMOutputs :
                                 LET rewrite == groq_rewrite(raw) IN
                                   IF rewrite.success
                                      /\ AcceptSimple(rewrite.rewritten_code, content)
                                   THEN take(rewrite.rewritten_code)
                                   ELSE skip
                       ELSE skip /\ UNCHANGED rewrites
          ELSE IF detect_language_app(f) = "None"
               THEN skip /\ UNCHANGED <<reviews, rewrites>>
               ELSE \* no review: patchwork_service.rewrite_code for every file
                    /\ rewrites' = rewrites \cup {f}
                    /\ UNCHANGED reviews
                    /\ \E raw \in LLMOutputs \cup {<<>>} :
                         LET rewrite == patchwork_rewrite(raw) IN
                           IF AcceptApp(rewrite.rewritten_code, content)
                           THEN take(rewrite.rewritten_code)
                           ELSE skip
    /\ UNCHANGED <<others, platformVars, path, auto_commit, fetchOk, files, steps, bi,
                   latest_commit_sha, tree_elements, new_tree, new_commit, calls,
                   unread, summary>>

\* `if fixed_files:` ("app"), `if request.auto_commit and fixed_files:` ("simple")
WantsCommit(p, ac, fixed) == (p = "app" \/ ac) /\ DOMAIN fixed # {}

\* after the loop: hand the FixSet to the commit builder, or return
AfterLoop ==
    /\ apc = "loop"
    /\ idx > Len(files)
    /\ IF WantsCommit(path, auto_commit, fixed_files)
       THEN /\ apc' = "build"
            /\ steps' = Plan(path, FixSeq(fixed_files))
            /\ bi' = 1
            /\ UNCHANGED result
       ELSE /\ apc' = "done"
            /\ result' = Result("ok", "", 0)
            /\ UNCHANGED <<steps, bi>>
    /\ UNCHANGED <<others, platformVars, path, auto_commit, fetchOk, files, idx,
                   fixed_files, latest_commit_sha, tree_elements, new_tree,
                   new_commit, calls, auditVars>>

\* the platform accepts the call: the ref exists; a ref update (force = false)
\* is a fast-forward of the current tip
CanSucceed(step) ==
    IF step.op = "get_ref" THEN branchExists
    ELSE IF step.op = "ref_edit"
    THEN branchExists /\ new_commit # 0 /\ commits[new_commit].parent = tip
    ELSE TRUE

\* the ways the platform can refuse the call
Failures(step) ==
    IF step.op = "get_ref"
    THEN (IF branchExists THEN {"403", "500", "conn"} ELSE {"404"})
    ELSE IF step.op = "ref_edit"
    THEN (IF CanSucceed(step) THEN {"403", "500", "conn"} ELSE {"422"})
    ELSE FailStatuses

\* faulty variant: the tree is built without the base tree (a full rewrite)
TreeOfBlobsOnly(base, elems) ==
    [f \in FilenameSet |->
        IF \E i \in DOMAIN elems : elems[i].path = f
        THEN (CHOOSE e \in {elems[i] : i \in DOMAIN elems} : e.path = f).content
        ELSE <<>>]

\* create_git_tree(tree_elements, base_tree): the new blobs over the base tree
Overlay(base, elems) ==
    [f \in FilenameSet |->
        IF \E i \in DOMAIN elems : elems[i].path = f
        THEN (CHOOSE e \in {elems[i] : i \in DOMAIN elems} : e.path = f).content
        ELSE base[f]]

\* One platform call of the commit builder
BuilderStep ==
    /\ apc = "build"
    /\ bi <= Len(steps)
    /\ LET step == steps[bi]
           proceed == /\ bi' = bi + 1
                      /\ apc' = (IF bi = Len(steps) THEN "summary" ELSE "build")
                      /\ UNCHANGED result
       IN \/ /\ CanSucceed(step)
             /\ calls' = Append(calls, Call(step.op, step.file, "ok"))
             /\ latest_commit_sha' =
                    (IF step.op = "get_ref" THEN tip ELSE latest_commit_sha)
             /\ tree_elements' =
                    (IF step.op = "blob"
                     THEN Append(tree_elements,
                                 [path |-> step.file, content |-> fixed_files[step.file]])
                     ELSE tree_elements)
             /\ new_tree' =
                    (IF step.op = "tree"
                     THEN Overlay(commits[latest_commit_sha].tree, tree_elements)
                     ELSE new_tree)
             /\ commits' =
                    (IF step.op = "commit"
                     THEN Append(commits, Commit(latest_commit_sha, new_tree, "engine"))
                     ELSE commits)
             /\ new_commit' =
                    (IF step.op = "commit" THEN Len(commits) + 1 ELSE new_commit)
             /\ tip' = (IF step.op = "ref_edit" THEN new_commit ELSE tip)
             /\ proceed
          \/ \E st \in Failures(step) :
             /\ calls' = Append(calls, Call(step.op, step.file, st))
             /\ IF FailResult(path, step.op, st).kind = "ok"
                THEN proceed
                ELSE /\ apc' = "done"
                     /\ result' = FailResult(path, step.op, st)
                     /\ UNCHANGED bi
             /\ UNCHANGED <<latest_commit_sha, tree_elements, new_tree, commits,
                            new_commit, tip>>
    /\ UNCHANGED <<others, prState, prFiles, branchExists, pushes, path, auto_commit,
                   fetchOk, files, idx, fixed_files, steps, auditVars>>

\* The summary comment after a successful commit.  "simple": post_pr_comment
\* returns a failure value, which the endpoint ignores.  "app": post_pr_comment
\* raises and autofix_pr returns {"error": ...}.
PostSummary ==
    /\ apc = "summary"
    /\ \E st \in {"ok", "403", "conn"} :
         /\ calls' = Append(calls, Call("comment", "", st))
         /\ summary' = Summary(FixSeq(fixed_files),
                               summary_commit(path, ShaText(new_commit)))
         /\ result' =
              (IF st = "ok" THEN Result("ok", "", new_commit)
               ELSE IF path = "app" THEN Result("failed", "exception", 0)
               ELSE IF st = "conn" THEN Result("raised", "500", 0)
               ELSE Result("ok", "", new_commit))
    /\ apc' = "done"
    /\ UNCHANGED <<others, platformVars, path, auto_commit, fetchOk, files, idx,
                   fixed_files, steps, bi, latest_commit_sha, tree_elements,
                   new_tree, new_commit, unread, reviews, rewrites>>

\* Another party pushes to the head branch while the builder runs
ConcurrentPush ==
    /\ apc = "build"
    /\ pushes < MaxPushes
    /\ branchExists
    /\ commits' = Append(commits, Commit(tip, commits[tip].tree, "other"))
    /\ tip' = Len(commits) + 1
    /\ pushes' = pushes + 1
    /\ UNCHANGED <<others, prState, prFiles, branchExists, runVars, auditVars>>

NextAutofix ==
    Fetch \/ ProcessFile \/ AfterLoop \/ BuilderStep \/ PostSummary \/ ConcurrentPush

SpecAutofix == InitAutofix /\ [][NextAutofix]_vars

\* ------------------------------------------------------------- claims on SpecAutofix
CallIdx(op) == { i \in DOMAIN calls : calls[i].op = op }
Ok(i) == calls[i].st = "ok"

\* C4: the branch ref is updated at most once, and only after the tip lookup,
\* a blob for every file of the FixSet, the tree and the commit were created,
\* in that order and all successfully; after a failed step no ref update is issued.
C4_RefUpdateLast ==
    /\ Cardinality(CallIdx("ref_edit")) <= 1
    /\ \A e \in CallIdx("ref_edit") :
          /\ \A j \in 1..(e - 1) : Ok(j)
          /\ \E r \in CallIdx("get_ref"), t \in CallIdx("tree"), c \in CallIdx("commit") :
                /\ r < t /\ t < c /\ c < e
                /\ \A f \in DOMAIN fixed_files :
                      \E b \in CallIdx("blob") : calls[b].file = f /\ r < b /\ b < t

C4_Witness ==
    /\ \E e \in CallIdx("ref_edit") : Ok(e)
    /\ Cardinality(DOMAIN fixed_files) = 2
    /\ tip = new_commit

\* C5: when the ref update fails, the branch is where it was (not at the
\* builder's commit), the run ends there with a failure reported, and the
\* run issued one ref update and built one commit: nothing is retried.
C5_FailedUpdateNoRetry ==
    (\E e \in CallIdx("ref_edit") : ~Ok(e)) =>
        /\ tip # new_commit
        /\ (pushes = 0 => tip = latest_commit_sha)
        /\ Cardinality(CallIdx("ref_edit")) = 1
        /\ Cardinality(CallIdx("commit")) = 1
        /\ CallIdx("comment") = {}
        /\ apc = "done"
        /\ result.kind \in {"failed", "raised"}

C5_Witness ==
    /\ \E e \in CallIdx("ref_edit") : calls[e].st = "403"
    /\ pushes = 0
    /\ new_commit # 0
    /\ apc = "done"

BuilderOps == {"token", "get_repo", "get_ref", "get_commit", "get_tree", "blob",
               "tree", "commit", "ref_edit"}

\* the error values of the failures that are no conflict
OtherErrors(p) ==
    {"branch_not_found", "forbidden"}
    \cup { FailResult(p, op, st).error : op \in BuilderOps \ {"ref_edit"}, st \in FailStatuses }
    \cup { FailResult(p, "ref_edit", st).error : st \in FailStatuses \ {"422"} }

MovedAfterLookup ==
    /\ latest_commit_sha # 0
    /\ tip # latest_commit_sha
    /\ commits[tip].author = "other"

\* C6: when another push moved the tip after the lookup, the ref update is not
\* applied, the branch stays at the other party's commit, and the builder's
\* error is a conflict error, distinct from every other failure's error.
C6_ConflictDistinct ==
    \A e \in CallIdx("ref_edit") :
        MovedAfterLookup =>
            /\ ~Ok(e)
            /\ commits[tip].author = "other"
            /\ result.kind = "failed"
            /\ result.error \notin OtherErrors(path)

\* C7: when the fetched PR is not open, the run ends with pr_closed and issues
\* no blob, tree, commit, ref-update or comment call.
C7_ClosedNeverCommitted ==
    (fetchOk /\ prState # "open") =>
        /\ \A i \in DOMAIN calls :
              calls[i].op \notin {"blob", "tree", "commit", "ref_edit", "comment"}
        /\ apc = "done" => result = Result("failed", "pr_closed", 0)

\* C8: a rewritten file is in the FixSet only if it differs from the original
\* after both are stripped, and with an empty FixSet the commit builder is
\* not invoked.
C8_NoopRewrite ==
    /\ \A f \in DOMAIN fixed_files :
          Strip(fixed_files[f]) # Strip(prFiles[f].content)
    /\ DOMAIN fixed_files = {} => calls = <<>>

Flagged == { f \in DOMAIN reviews : reviews[f] = "flagged" }

\* C16: in every autofix run the rewrite collaborator is called for a file
\* only if that file's review succeeded with critical + high > 0, so the
\* FixSet holds flagged files only.
C16_RewriteOnlyFlagged ==
    /\ rewrites \subseteq Flagged
    /\ DOMAIN fixed_files \subseteq Flagged

\* C18: a content failure never fails the fetch, and the fetched snapshot lists
\* every changed file (here: every one that is not removed): a file whose
\* content could not be fetched with content "", every other file with its
\* content.
C18_SnapshotListsEveryFile ==
    fetchOk =>
        \A f \in FilenameSet :
            prFiles[f].status # "removed" =>
                \E i \in DOMAIN files :
                    /\ files[i].filename = f
                    /\ files[i].content =
                          (IF f \in unread THEN <<>> ELSE prFiles[f].content)

BuilderFailed ==
    /\ calls # <<>>
    /\ calls[Len(calls)].op \in BuilderOps
    /\ calls[Len(calls)].st # "ok"

\* C19: a failing execution of create_commit_with_fixes ends in a structured
\* failure value, never a raised exception: branch_not_found exactly when the
\* ref does not exist, forbidden exactly when the platform denies permission
\* (the ref lookup included), a platform error for every other failure.
C19_StructuredFailures ==
    (path = "simple" /\ BuilderFailed) =>
        LET last == calls[Len(calls)] IN
        /\ apc = "done"
        /\ result.kind = "failed"
        /\ result.error = "branch_not_found"
              <=> (last.op = "get_ref" /\ last.st = "404")
        /\ result.error = "forbidden" <=> last.st = "403"

\* C20: the summary comment is posted exactly when the commit succeeded: after
\* the ref update, at most once, listing the FixSet's files and showing the
\* first 7 characters of the new commit's SHA; a run whose commit failed or
\* was skipped posts none.
C20_SummaryAfterCommit ==
    /\ Cardinality(CallIdx("comment")) <= 1
    /\ \A c \in CallIdx("comment") :
          /\ \E e \in CallIdx("ref_edit") : e < c /\ Ok(e)
          /\ summary.files = FixSeq(fixed_files)
          /\ summary.commit = SubSeq(ShaText(new_commit), 1, 7)
    /\ (apc = "done" /\ \E e \in CallIdx("ref_edit") : Ok(e))
          => CallIdx("comment") # {}

\* C22: a background task (the "app" path) never ends in an uncaught
\* exception: whatever fails in it (token exchange, fetch, rewrite, a commit
\* builder call, the comment), the run ends with a returned value, the normal
\* summary or an error.
C22_TaskNeverRaises ==
    path = "app" =>
        /\ result.kind \in {"pending", "ok", "failed"}
        /\ apc = "done" => result.kind \in {"ok", "failed"}

C22_Witness ==
    /\ path = "app"
    /\ apc = "done"
    /\ result = Result("failed", "exception", 0)
    /\ \E i \in DOMAIN calls : calls[i].op = "commit" /\ calls[i].st = "conn"

\* C23: when the commit builder moves the branch, the new tip has the previous
\* tip as its parent, every FixSet file has its rewritten content at the new
\* tip, and every other path has the content it had at the previous tip.
C23_OverlayCommit ==
    [][ (tip' # tip /\ commits'[tip'].author = "engine") =>
          /\ commits'[tip'].parent = tip
          /\ \A f \in FilenameSet :
                commits'[tip'].tree[f] =
                    (IF f \in DOMAIN fixed_files THEN fixed_files[f]
                     ELSE commits[tip].tree[f]) ]_vars

C23_Witness ==
    /\ \E e \in CallIdx("ref_edit") : Ok(e)
    /\ tip = new_commit
    /\ DOMAIN fixed_files = {"a.py"}
    /\ commits[tip].tree["a.py"] = fixed_files["a.py"]
    /\ commits[tip].tree["b.md"] = <<"x", "\n">>
    /\ pushes = 1

\* ------------------------------------------------------------- SpecReview
\* One review run: PatchworkGitHub.review_pr ("app", the webhook's review
\* task) or the analyze-pr endpoint ("simple").
InitReview ==
    /\ webhook_secret = ""
    /\ prBody = None
    /\ vpayload = ""
    /\ vsignature = None
    /\ vresult = "pending"
    /\ HookIdle
    /\ TokenIdle
    /\ GroqIdle
    /\ path \in {"app", "simple"}
    /\ post_comment \in (IF path = "app" THEN {TRUE} ELSE BOOLEAN)
    /\ review_results = <<>>
    /\ prState \in {"open", "closed"}
    /\ prFiles \in [FilenameSet -> FileChanges]
    /\ branchExists = TRUE
    /\ commits = << Commit(0, [f \in FilenameSet |-> prFiles[f].content], "author") >>
    /\ tip = 1
    /\ pushes = 0
    /\ auto_commit = FALSE
    /\ apc = "fetch"
    /\ fetchOk = FALSE
    /\ files = <<>>
    /\ idx = 0
    /\ fixed_files = NoFixes
    /\ steps = <<>>
    /\ bi = 0
    /\ latest_commit_sha = 0
    /\ tree_elements = <<>>
    /\ new_tree = [f \in FilenameSet |-> <<>>]
    /\ new_commit = 0
    /\ calls = <<>>
    /\ result = NoResult
    /\ unread = {}
    /\ reviews = NoReviews
    /\ rewrites = {}
    /\ summary = NoSummary

reviewOthers ==
    <<webhook_secret, verifyVars, hookVars, platformVars, path, auto_commit,
      fixed_files, steps, bi, latest_commit_sha, tree_elements, new_tree,
      new_commit, rewrites, summary, post_comment, tokenVars, groqVars, syncVars>>

\* pr_data = get_pr_diff(...) / fetch_pr_data(...)
ReviewFetch ==
    /\ apc = "fetch"
    /\ \/ \E u \in SUBSET {f \in FilenameSet : prFiles[f].status # "removed"} :
          /\ unread' = u
          /\ fetchOk' = TRUE
          /\ files' = (IF path = "app" THEN get_pr_diff_files(u)
                                       ELSE fetch_pr_data_files(u))
          /\ idx' = 1
          /\ apc' = "loop"
          /\ UNCHANGED result
       \/ \E st \in {"403", "404", "conn"} :
          /\ apc' = "done"
          /\ result' = FetchFailResult(path, st)
          /\ UNCHANGED <<fetchOk, files, idx, unread>>
    /\ UNCHANGED <<reviewOthers, calls, reviews, review_results>>

\* a review outcome that counts as a result: `"error" not in review` /
\* `result.get("success")`
ProducedResult(outcome) == outcome \in {"clean", "flagged"}

\* One iteration of the review loop.  "simple": removed and empty files are
\* skipped, groq.review_code raises ValueError on whitespace-only code and the
\* endpoint answers HTTP 400.  "app": a file without a known language is
\* skipped, patchwork_service.review_code never raises.
ReviewFile ==
    /\ apc = "loop"
    /\ idx <= Len(files)
    /\ LET f == files[idx].filename
           content == files[idx].content
           skip == /\ idx' = idx + 1
                   /\ UNCHANGED <<apc, result, reviews, review_results>>
           review == \E outcome \in {"failed", "clean", "flagged"} :
                       /\ reviews' = Put(reviews, f, outcome)
                       /\ review_results' =
                            (IF ProducedResult(outcome)
                             THEN Append(review_results, f) ELSE review_results)
                       /\ idx' = idx + 1
                       /\ UNCHANGED <<apc, result>>
       IN IF path = "simple"
          THEN IF files[idx].status = "removed" \/ content = <<>>
               THEN skip
               ELSE IF Strip(content) = <<>>
               THEN /\ apc' = "done"
                    /\ result' = Result("raised", "400", 0)
                    /\ reviews' = Put(reviews, f, "raised")
                    /\ UNCHANGED <<idx, review_results>>
               ELSE review
          ELSE IF detect_language_app(f) = "None" THEN skip ELSE review
    /\ UNCHANGED <<reviewOthers, fetchOk, files, unread, calls>>

\* the run posts its comment: `if review_results:` ("app"),
\* `if request.post_comment:` ("simple")
PostsReview(p, pc, results) == IF p = "app" THEN results # <<>> ELSE pc

\* After the loop: the review comment and the run's result.  "app":
\* post_pr_comment raises and review_pr returns {"error": ...}.  "simple":
\* post_pr_comment returns a failure value, which the endpoint returns.
ReviewPost ==
    /\ apc = "loop"
    /\ idx > Len(files)
    /\ IF PostsReview(path, post_comment, review_results)
       THEN \E st \in {"ok", "403", "conn"} :
              /\ calls' = Append(calls, Call("comment", "", st))
              /\ result' =
                   (IF st = "ok" THEN Result("ok", "", 0)
                    ELSE IF path = "app" THEN Result("failed", "exception", 0)
                    ELSE IF st = "conn" THEN Result("raised", "500", 0)
                    ELSE Result("failed", "forbidden", 0))
       ELSE /\ result' = Result("ok", "", 0)
            /\ UNCHANGED calls
    /\ apc' = "done"
    /\ UNCHANGED <<reviewOthers, fetchOk, files, idx, unread, reviews, review_results>>

NextReview == ReviewFetch \/ ReviewFile \/ ReviewPost

SpecReview == InitReview /\ [][NextReview]_vars

\* ------------------------------------------------------------- claims on SpecReview
\* C15: a review run that is to post its review (the webhook's review task,
\* analyze-pr with post_comment) posts exactly one PR-level comment when at
\* least one file produced a review result and none when no file did.
C15_OneCommentIffResults ==
    /\ Cardinality(CallIdx("comment")) <= 1
    /\ review_results = <<>> => CallIdx("comment") = {}
    /\ (apc = "done" /\ idx > Len(files) /\ post_comment /\ review_results # <<>>)
          => Cardinality(CallIdx("comment")) = 1

\* C17: a collaborator's failure on one file (a failure result or a raised
\* exception, as for whitespace-only content) skips that file only: once the
\* PR is fetched and no platform call fails, every file is gone through and
\* the run returns its normal result.
C17_FileFailureIsolated ==
    ( /\ apc = "done"
      /\ fetchOk
      /\ \A i \in DOMAIN calls : Ok(i) )
    => (idx > Len(files) /\ result.kind = "ok")

\* C26: language detection is total (an unknown extension maps to the
\* fallback language), so a run that went through all files has handed every
\* non-removed file with content of the snapshot to the reviewer, whatever
\* its extension.
C26_EveryFileReviewed ==
    (fetchOk /\ idx > Len(files)) =>
        \A i \in DOMAIN files :
            (files[i].status # "removed" /\ files[i].content # <<>>)
            => /\ (IF path = "app" THEN detect_language_app(files[i].filename)
                                   ELSE detect_language(files[i].filename)) # "None"
               /\ files[i].filename \in DOMAIN reviews

\* ------------------------------------------------------------- SpecToken
\* The background tasks and their calls of GitHubService; every method starts
\* with get_installation_client(installation_id).  The run stays within one
\* token's validity window.

\* the GitHubService methods a task calls: review_pr, autofix_pr
ReviewOps == <<"get_pr_diff", "post_pr_comment">>
AutofixOps == <<"get_pr_diff", "create_commit", "post_pr_comment">>

\* an entry of the log: what = "exchange" (integration.get_access_token; token
\* 0: the exchange failed) or "call" (the platform call made with the token)
LogEntry(task, inst, what, op, token) ==
    [task |-> task, inst |-> inst, what |-> what, op |-> op, token |-> token]

Exchanges == { i \in DOMAIN tlog : tlog[i].what = "exchange" }

\* the platform issues a new token at every successful exchange
FreshToken == Cardinality({ i \in Exchanges : tlog[i].token # 0 }) + 1

InitToken ==
    /\ webhook_secret = ""
    /\ prBody = None
    /\ vpayload = ""
    /\ vsignature = None
    /\ vresult = "pending"
    /\ HookIdle
    /\ ReviewIdle
    /\ GroqIdle
    /\ prState = "open"
    /\ prFiles = [f \in FilenameSet |-> FileChange("removed", <<>>)]
    /\ branchExists = TRUE
    /\ commits = <<>>
    /\ tip = 0
    /\ pushes = 0
    /\ path = "app"
    /\ auto_commit = FALSE
    /\ apc = "idle"
    /\ fetchOk = FALSE
    /\ files = <<>>
    /\ idx = 0
    /\ fixed_files = NoFixes
    /\ steps = <<>>
    /\ bi = 0
    /\ latest_commit_sha = 0
    /\ tree_elements = <<>>
    /\ new_tree = [f \in FilenameSet |-> <<>>]
    /\ new_commit = 0
    /\ calls = <<>>
    /\ result = NoResult
    /\ unread = {}
    /\ reviews = NoReviews
    /\ rewrites = {}
    /\ summary = NoSummary
    /\ integration \in BOOLEAN
    /\ tinst \in [Tasks -> Installations]
    /\ tops \in [Tasks -> {ReviewOps, AutofixOps}]
    /\ tpos = [t \in Tasks |-> 1]
    /\ tstatus = [t \in Tasks |-> "running"]
    /\ tlog = <<>>

\* faulty variant: get_installation_client does not check self.integration
ServiceCallUnguarded(t) ==
    /\ tstatus[t] = "running"
    /\ LET op == tops[t][tpos[t]]
           fail(err) == /\ tstatus' = [tstatus EXCEPT ![t] = err]
                        /\ UNCHANGED tpos
       IN \/ /\ tlog' = Append(tlog, LogEntry(t, tinst[t], "exchange", op, 0))
             /\ fail("exchange_error")
          \/ \E ok \in BOOLEAN :
             /\ tlog' = tlog \o << LogEntry(t, tinst[t], "exchange", op, FreshToken),
                                   LogEntry(t, tinst[t], "call", op, FreshToken) >>
             /\ IF ~ok THEN fail("call_error")
                ELSE /\ tpos' = [tpos EXCEPT ![t] = @ + 1]
                     /\ tstatus' = [tstatus EXCEPT ![t] =
                                      IF tpos[t] = Len(tops[t]) THEN "done" ELSE "running"]
    /\ UNCHANGED <<webhook_secret, verifyVars, hookVars, platformVars, runVars,
                   auditVars, reviewVars, groqVars, syncVars, integration, tinst, tops>>

\* One GitHubService method of task t: get_installation_client raises when
\* the integration is not configured ("config_error"), else exchanges for a
\* token ("exchange_error" when that fails); then the platform is called with
\* the token ("call_error" when that fails).  An exception ends the task
\* (review_pr / autofix_pr return {"error": ...}).
ServiceCall(t) ==
    /\ tstatus[t] = "running"
    /\ LET op == tops[t][tpos[t]]
           fail(err) == /\ tstatus' = [tstatus EXCEPT ![t] = err]
                        /\ UNCHANGED tpos
       IN IF ~integration
          THEN fail("config_error") /\ UNCHANGED tlog
          ELSE \/ /\ tlog' = Append(tlog, LogEntry(t, tinst[t], "exchange", op, 0))
                  /\ fail("exchange_error")
               \/ \E ok \in BOOLEAN :
                  /\ tlog' = tlog \o << LogEntry(t, tinst[t], "exchange", op, FreshToken),
                                        LogEntry(t, tinst[t], "call", op, FreshToken) >>
                  /\ IF ~ok THEN fail("call_error")
                     ELSE /\ tpos' = [tpos EXCEPT ![t] = @ + 1]
                          /\ tstatus' = [tstatus EXCEPT ![t] =
                                           IF tpos[t] = Len(tops[t]) THEN "done" ELSE "running"]
    /\ UNCHANGED <<webhook_secret, verifyVars, hookVars, platformVars, runVars,
                   auditVars, reviewVars, groqVars, syncVars, integration, tinst, tops>>

NextToken == \E t \in Tasks : ServiceCall(t)

SpecToken == InitToken /\ [][NextToken]_vars

\* ------------------------------------------------------------- claims on SpecToken
\* C13: within the validity window a second token request for an installation
\* returns the same token without a new exchange: across the get_pr_diff,
\* post_pr_comment and create_commit calls of a task there is one successful
\* exchange, and all its platform calls carry the same token.
C13_TokenReused ==
    \A t \in Tasks :
        /\ Cardinality({ i \in Exchanges : tlog[i].task = t /\ tlog[i].token # 0 }) <= 1
        /\ \A i, j \in DOMAIN tlog :
              (tlog[i].task = t /\ tlog[j].task = t /\ tlog[i].what = "call"
                 /\ tlog[j].what = "call")
              => tlog[i].token = tlog[j].token

\* the first token request of task t, once made
FirstExchange(t) ==
    { i \in Exchanges : tlog[i].task = t
                        /\ \A j \in Exchanges : tlog[j].task = t => i <= j }

\* C14: tasks requesting a token for the same installation on a cold cache
\* share one exchange: they all receive the same token or the same failure.
C14_SingleFlight ==
    \A t, u \in Tasks :
        (t # u /\ tinst[t] = tinst[u]) =>
            \A i \in FirstExchange(t), j \in FirstExchange(u) :
                /\ tlog[i].token = tlog[j].token
                /\ Cardinality({ k \in Exchanges : tlog[k].inst = tinst[t] }) <= 1

\* C25: without configured credentials every auth-dependent operation fails
\* with the configuration error before any token exchange or platform call,
\* and after a failed token exchange the operation fails and its task issues
\* no platform call.
C25_AuthFailsBeforeCalls ==
    /\ ~integration =>
          /\ tlog = <<>>
          /\ \A t \in Tasks : tstatus[t] \in {"running", "config_error"}
    /\ \A i \in Exchanges :
          tlog[i].token = 0 =>
              /\ tstatus[tlog[i].task] = "exchange_error"
              /\ \A j \in DOMAIN tlog : j > i => tlog[j].task # tlog[i].task

C25_Witness ==
    /\ ~integration
    /\ \A t \in Tasks : tstatus[t] = "config_error"
    /\ tlog = <<>>

\* ------------------------------------------------------------- SpecGroq
\* GroqService.review_code as a function of its arguments and of the model
\* API's answer.

\* the model API's answers: a review text, an empty text, or an exception
ApiAnswers == {"text", "empty", "rate_limit", "connection", "api_error", "other"}

CodeChars == {"x", " ", "\n"}
Codes == {None} \cup {Str(c) : c \in SeqsUpTo(CodeChars, MaxCodeLen)}

Languages ==
    { PyValue("str", TRUE, "python"), PyValue("str", FALSE, ""),
      PyValue("NoneType", FALSE, ""), PyValue("int", FALSE, ""),
      PyValue("int", TRUE, "") }

\* faulty variant: only the empty string is rejected
review_code_nostrip(code, language, api) ==
    IF ~Truthy(code)
    THEN GroqResult("ValueError", FALSE, FALSE)
    ELSE IF ~language.truthy \/ language.type # "str"
    THEN GroqResult("ValueError", FALSE, FALSE)
    ELSE GroqResult("", api = "text", TRUE)

\* GroqService.review_code: the input validation raises ValueError before the
\* try block; inside it the API is called, and every exception, the
\* ValueError for an empty answer included, becomes a result with success false
review_code(code, language, api) ==
    IF ~Truthy(code) \/ Strip(code.s) = <<>>
    THEN GroqResult("ValueError", FALSE, FALSE)
    ELSE IF ~language.truthy \/ language.type # "str"
    THEN GroqResult("ValueError", FALSE, FALSE)
    ELSE GroqResult("", api = "text", TRUE)

InitGroq ==
    /\ webhook_secret = ""
    /\ prBody = None
    /\ vpayload = ""
    /\ vsignature = None
    /\ vresult = "pending"
    /\ HookIdle
    /\ ReviewIdle
    /\ TokenIdle
    /\ prState = "open"
    /\ prFiles = [f \in FilenameSet |-> FileChange("removed", <<>>)]
    /\ branchExists = TRUE
    /\ commits = <<>>
    /\ tip = 0
    /\ pushes = 0
    /\ path = "simple"
    /\ auto_commit = FALSE
    /\ apc = "idle"
    /\ fetchOk = FALSE
    /\ files = <<>>
    /\ idx = 0
    /\ fixed_files = NoFixes
    /\ steps = <<>>
    /\ bi = 0
    /\ latest_commit_sha = 0
    /\ tree_elements = <<>>
    /\ new_tree = [f \in FilenameSet |-> <<>>]
    /\ new_commit = 0
    /\ calls = <<>>
    /\ result = NoResult
    /\ unread = {}
    /\ reviews = NoReviews
    /\ rewrites = {}
    /\ summary = NoSummary
    /\ gcode \in Codes
    /\ glanguage \in Languages
    /\ gapi \in ApiAnswers
    /\ gresult = GroqPending

ReviewCodeCall ==
    /\ gresult = GroqPending
    /\ gresult' = review_code(gcode, glanguage, gapi)
    /\ UNCHANGED <<webhook_secret, verifyVars, hookVars, platformVars, runVars,
                   auditVars, reviewVars, tokenVars, syncVars, gcode, glanguage, gapi>>

NextGroq == ReviewCodeCall

SpecGroq == InitGroq /\ [][NextGroq]_vars

\* ------------------------------------------------------------- claims on SpecGroq
\* C27: for code that is empty or only whitespace, or an empty language,
\* review_code raises ValueError and does not call the model API.
C27_RejectsBeforeApi ==
    ( /\ gresult # GroqPending
      /\ \/ ~Truthy(gcode)
         \/ \A i \in DOMAIN gcode.s : IsSpace(gcode.s[i])
         \/ glanguage = PyValue("str", FALSE, "") )
    => (gresult.raised = "ValueError" /\ ~gresult.api_called)

C27_Witness ==
    /\ gcode = Str(<<" ", "\n">>)
    /\ glanguage = PyValue("str", TRUE, "python")
    /\ gresult = GroqResult("ValueError", FALSE, FALSE)

\* ------------------------------------------------------------- SpecSync
\* The webhook handler and the platform's events about one pull request: a
\* first verified event (a lifecycle event or a comment on the PR's thread),
\* then the 'synchronize' events the platform sends when an autofix task
\* pushed its commit to the head branch.  The PR's body does not change.
SignedFor(secret, b) == Str(<<Lit("sha256"), EQ, HexDigest(secret, b)>>)

\* the payload of a pull_request event about the PR
PullRequestEvent(action) ==
    Payload(TRUE, action, TRUE, prBody, TRUE, TRUE, "absent", FALSE, <<>>)

InitSync ==
    /\ webhook_secret = "s1"
    /\ vpayload = ""
    /\ vsignature = None
    /\ vresult = "pending"
    /\ HookIdle
    /\ ReviewIdle
    /\ TokenIdle
    /\ GroqIdle
    /\ prState = "open"
    /\ prFiles = [f \in FilenameSet |-> FileChange("removed", <<>>)]
    /\ branchExists = TRUE
    /\ commits = <<>>
    /\ tip = 0
    /\ pushes = 0
    /\ path = "app"
    /\ auto_commit = FALSE
    /\ apc = "idle"
    /\ fetchOk = FALSE
    /\ files = <<>>
    /\ idx = 0
    /\ fixed_files = NoFixes
    /\ steps = <<>>
    /\ bi = 0
    /\ latest_commit_sha = 0
    /\ tree_elements = <<>>
    /\ new_tree = [f \in FilenameSet |-> <<>>]
    /\ new_commit = 0
    /\ calls = <<>>
    /\ result = NoResult
    /\ unread = {}
    /\ reviews = NoReviews
    /\ rewrites = {}
    /\ summary = NoSummary
    /\ prBody \in {None} \cup {Str(t) : t \in Texts}

\* the first event about the PR arrives
ReceiveEvent ==
    /\ hpc = "idle"
    /\ handled = 0
    /\ \/ \E a \in {"opened", "reopened", "synchronize"} :
            req' = Request(SignedFor(webhook_secret, "b1"), "b1", "pull_request",
                           PullRequestEvent(a))
       \/ \E t \in Texts :
            req' = Request(SignedFor(webhook_secret, "b1"), "b1", "issue_comment",
                           Payload(TRUE, "created", FALSE, None, TRUE, TRUE, "pr", TRUE, t))
    /\ handled' = 1
    /\ hpc' = "check_header"
    /\ verified' = "none"
    /\ payloadRead' = FALSE
    /\ response' = NoResponse
    /\ added' = <<>>
    /\ UNCHANGED <<webhook_secret, verifyVars, background_tasks, dispatched, effects, fixVars>>

\* commits the autofix tasks pushed to the head branch
EngineCommits == { i \in DOMAIN effects : effects[i].what = "commit" }

\* the platform announces an engine commit not yet announced with a
\* pull_request 'synchronize' event
ReceiveSynchronize ==
    /\ hpc = "done"
    /\ handled < MaxDeliveries
    /\ Cardinality(EngineCommits) > handled - 1
    /\ req' = Request(SignedFor(webhook_secret, "b1"), "b1", "pull_request",
                      PullRequestEvent("synchronize"))
    /\ handled' = handled + 1
    /\ hpc' = "check_header"
    /\ verified' = "none"
    /\ payloadRead' = FALSE
    /\ response' = NoResponse
    /\ added' = <<>>
    /\ UNCHANGED <<webhook_secret, verifyVars, background_tasks, dispatched, effects, fixVars>>

NextSync ==
    ReceiveEvent \/ ReceiveSynchronize \/ CheckHeader \/ Verify \/ Parse \/ Route \/ RunTask

SpecSync == InitSync /\ [][NextSync]_vars

\* ------------------------------------------------------------- claims on SpecSync
\* C28: the 'synchronize' event that follows the engine's own autofix commit
\* dispatches no autofix task: every autofix task comes from the first event.
C28_NoSelfTrigger ==
    \A i \in DOMAIN dispatched :
        dispatched[i].kind = "autofix" => dispatched[i].n = 1

====
